---- MODULE Spec2Model ----
(***************************************************************************)
(* HB-DECDSA: a hybrid signature scheme.  A deterministic nonce is derived *)
(* in the divisor class group of a genus-2 hyperelliptic curve             *)
(* (src/src/hecc/jacobian_masking.py) and handed to an ECDSA layer         *)
(* (src/src/ecdsa_ref/*.py, src/src/hybrid/hb_decdsa_scheme.py).           *)
(*                                                                         *)
(* Numbers are scaled to TLC's integers.  The source's field modulus is    *)
(* (1 << 254) - 189, which is composite (5 * 37 * 41 * 983 * ...); the     *)
(* model keeps the form 2^k - 189 with k = 10, which is composite too      *)
(* (835 = 5 * 167), so that pow(x, p - 2, p) is, as in the source, not an  *)
(* inverse of x for almost every x.  Polynomials are sequences of          *)
(* coefficients, lowest degree first: the Python list a is the sequence    *)
(* with a[i] at index i + 1.                                               *)
(***************************************************************************)
EXTENDS Integers, Sequences, FiniteSets, TLC

\* jacobian_masking.py:7   _p = (1 << 254) - 189
_p == 2^10 - 189

\* x * x modulo m
sqmod(x, m) == (x * x) % m

\* Python's three-argument pow(b, e, m), by squaring.
RECURSIVE pow(_, _, _)
pow(b, e, m) ==
    IF e = 0 THEN 1 % m
    ELSE IF e % 2 = 1 THEN (sqmod(pow(b, e \div 2, m), m) * (b % m)) % m
    ELSE sqmod(pow(b, e \div 2, m), m)

Max(a, b) == IF a >= b THEN a ELSE b

\* ---------------------------------------------------------------------
\* Polynomial arithmetic (jacobian_masking.py:10-80)

\* poly_strip: drop trailing zero coefficients, keeping at least one.
RECURSIVE strip_len(_, _)
\* the length left by the loop `while len(a) > 1 and a[-1] == 0: a.pop()`
strip_len(a, n) == IF n > 1 /\ a[n] = 0 THEN strip_len(a, n - 1) ELSE n

poly_strip(a) == SubSeq(a, 1, strip_len(a, Len(a)))

coef(a, i) == IF i <= Len(a) THEN a[i] ELSE 0

poly_add(a, b, p) ==
    poly_strip([i \in 1..Max(Len(a), Len(b)) |-> (coef(a, i) + coef(b, i)) % p])

poly_sub(a, b, p) ==
    poly_strip([i \in 1..Max(Len(a), Len(b)) |-> (coef(a, i) - coef(b, i)) % p])

RECURSIVE SumTo(_, _, _)
\* sum of f[i] for i in lo..hi
SumTo(f, lo, hi) == IF lo > hi THEN 0 ELSE f[hi] + SumTo(f, lo, hi - 1)

\* res[i+j] accumulates a[i] * b[j] modulo p
poly_mul(a, b, p) ==
    poly_strip([k \in 1..(Len(a) + Len(b) - 1) |->
        LET lo == Max(1, k + 1 - Len(b))
            hi == IF k <= Len(a) THEN k ELSE Len(a)
            terms == [i \in lo..hi |-> a[i] * b[k + 1 - i]]
        IN  SumTo(terms, lo, hi) % p])

is_zero_poly(a) == Len(a) = 1 /\ a[1] = 0

\* An exception raised by a call: the call returns nothing.
ZeroDivisionError == [exc |-> "ZeroDivisionError"]

\* divmod_sub taking coef * den away from the leading term only.
divmod_sub_lead_only(st, den, qi, i, p) ==
    << [st[1] EXCEPT ![i + 1] = qi],
       [st[2] EXCEPT ![i + Len(den)] =
            (st[2][i + Len(den)] - qi * den[Len(den)]) % p] >>

\* Lines 50-52: q[i] = coef and the subtraction of coef * den from num at
\* Python index i; st = <<q, num>>.
divmod_sub(st, den, qi, i, p) ==
    << [st[1] EXCEPT ![i + 1] = qi],
       SubSeq([k \in 1..Len(st[2]) |->
                  IF k >= i + 1 /\ k <= i + Len(den)
                  THEN (st[2][k] - qi * den[k - i]) % p
                  ELSE st[2][k]], 1, Len(st[2])) >>

\* One pass of the outer loop of poly_divmod (lines 49-52) at Python index i.
divmod_step(st, den, inv, i, p) ==
    divmod_sub(st, den, (st[2][i + Len(den)] * inv) % p, i, p)

RECURSIVE divmod_loop(_, _, _, _, _)
divmod_loop(st, den, inv, i, p) ==
    IF i < 0 THEN st
    ELSE divmod_loop(divmod_step(st, den, inv, i, p), den, inv, i - 1, p)

\* Line 53: the quotient and the remainder, stripped.
divmod_result(st) == [q |-> poly_strip(st[1]), r |-> poly_strip(st[2])]

\* poly_divmod(num, den, p): [q, r], quotient and remainder, or
\* ZeroDivisionError.
poly_divmod(num, den, p) ==
    IF is_zero_poly(den) THEN ZeroDivisionError
    ELSE IF Len(num) < Len(den) THEN [q |-> <<0>>, r |-> num]
    ELSE divmod_result(
             divmod_loop(<< SubSeq([i \in 1..(Len(num) - Len(den) + 1) |-> 0],
                                   1, Len(num) - Len(den) + 1), num >>,
                         den, pow(den[Len(den)], p - 2, p),
                         Len(num) - Len(den), p))

\* jacobian_masking.py:60   for _ in range(500)
XGCD_ITERATIONS == 500

\* Lines 65-70 of poly_xgcd: the new values, dm the quotient and remainder
\* of old_r by r.
xgcd_next(st, dm, p) ==
    [old_r |-> st.r, r |-> dm.r,
     old_s |-> st.s, s |-> poly_sub(st.old_s, poly_mul(dm.q, st.s, p), p),
     old_t |-> st.t, t |-> poly_sub(st.old_t, poly_mul(dm.q, st.t, p), p),
     iter |-> st.iter + 1]

\* One pass of the loop of poly_xgcd (lines 61-70); once r is the zero
\* polynomial the loop has been left (break) and nothing changes any more.
xgcd_step(st, p) ==
    IF is_zero_poly(st.r) THEN st
    ELSE xgcd_next(st, poly_divmod(st.old_r, st.r, p), p)

\* n passes of the loop, from st (split in halves, which keeps the
\* evaluation shallow).
RECURSIVE xgcd_loop(_, _, _)
xgcd_loop(st, n, p) ==
    IF n = 0 \/ is_zero_poly(st.r) THEN st
    ELSE IF n = 1 THEN xgcd_step(st, p)
    ELSE xgcd_loop(xgcd_loop(st, n \div 2, p), n - (n \div 2), p)

xgcd_init(a, b) ==
    [old_r |-> a, r |-> b, old_s |-> <<1>>, s |-> <<0>>,
     old_t |-> <<0>>, t |-> <<1>>, iter |-> 0]

\* Lines 73-77: the three polynomials made monic by lead_inv.
xgcd_scale(st, lead_inv, p) ==
    << poly_mul(st.old_r, <<lead_inv>>, p),
       poly_mul(st.old_s, <<lead_inv>>, p),
       poly_mul(st.old_t, <<lead_inv>>, p) >>

xgcd_result(st, p) == xgcd_scale(st, pow(st.old_r[Len(st.old_r)], p - 2, p), p)

\* poly_xgcd(a, b, p) = <<gcd, c1, c2>>
poly_xgcd(a, b, p) == xgcd_result(xgcd_loop(xgcd_init(a, b), XGCD_ITERATIONS, p), p)

\* ---------------------------------------------------------------------
\* Divisor class group (jacobian_masking.py:82-198)

\* jacobian_masking.py:191   _f_poly = [1, 2, 7, 14, 3, 1]
_f_poly == <<1, 2, 7, 14, 3, 1>>

\* HyperellipticCurve(_f_poly, _p)
HyperellipticCurve(f_poly, p) == [f |-> f_poly, p |-> p]

\* MumfordDivisor.__init__: both lists are stripped on construction.
MumfordDivisor(u, v) == [u |-> poly_strip(u), v |-> poly_strip(v)]

\* MumfordDivisor.coords: <<u1, u0, v1, v0>>, 0 for an absent coefficient.
coords(D) == << coef(D.u, 2), coef(D.u, 1), coef(D.v, 2), coef(D.v, 1) >>

\* Lines 122-124 of _reduce: u_new made monic.
reduce_monic(u_new, v_new, iter, p) ==
    [u |-> poly_mul(u_new, <<pow(u_new[Len(u_new)], p - 2, p)>>, p),
     v |-> v_new, iter |-> iter + 1]

\* Lines 117-119: u_new = (f - v_new^2) / u
reduce_next(st, v_new, curve) ==
    reduce_monic(poly_divmod(poly_sub(curve.f, poly_mul(v_new, v_new, curve.p),
                                      curve.p), st.u, curve.p).q,
                 v_new, st.iter, curve.p)

\* One pass of the loop of _reduce (lines 114-124): st = [u, v, iter];
\* v_new = -v mod u.
reduce_step(st, curve) ==
    reduce_next(st, poly_divmod(poly_sub(<<0>>, st.v, curve.p), st.u, curve.p).r,
                curve)

\* The loop of _reduce has no bound of its own; the model follows it for this
\* many passes and reports NoReturn for a call that is still looping then.
MaxReduce == 8

NoReturn == [exc |-> "NoReturn"]

RECURSIVE reduce_loop(_, _)
reduce_loop(st, curve) ==
    IF ~(Len(st.u) - 1 > 2) THEN st
    ELSE IF st.iter >= MaxReduce THEN NoReturn
    ELSE reduce_loop(reduce_step(st, curve), curve)

\* CantorAlgorithm._reduce(u, v): [u, v, iter], iter the passes made.
reduce(u, v, curve) == reduce_loop([u |-> u, v |-> v, iter |-> 0], curve)

Raised(r) == "exc" \in DOMAIN r

\* is_identity recognising the polynomial 1 only.
is_identity_one_only(u) == Len(u) = 1 /\ u[1] = 1

\* Lines 132-135: the test add makes of each operand's u.
is_identity(u) == is_zero_poly(u) \/ (Len(u) = 1 /\ u[1] = 1)

\* Line 166: the divisor of the reduced pair, red the result of _reduce.
compose_result(red) == IF Raised(red) THEN red ELSE MumfordDivisor(red.u, red.v)

\* Lines 147, 164, 166: new_u and new_v_full are the results of the two
\* divisions.
compose_reduce(new_u, new_v_full, curve) ==
    IF Raised(new_u) THEN new_u
    ELSE IF Raised(new_v_full) THEN new_v_full
    ELSE compose_result(reduce(new_u.q, new_v_full.q, curve))

\* Lines 150-163: num_v = s1*u1*v2 + s2*u2*v1 + s3*u1*u2, where
\* g1 = <<d1, e1, e2>> and g2 = <<d, c1, c2>>.
compose_num_v(D1, D2, g1, g2, p) ==
    poly_add(
        poly_add(poly_mul(poly_mul(poly_mul(g2[2], g1[2], p), D1.u, p), D2.v, p),
                 poly_mul(poly_mul(poly_mul(g2[2], g1[3], p), D2.u, p), D1.v, p), p),
        poly_mul(poly_mul(g2[3], D1.u, p), D2.u, p), p)

\* Lines 145-164: new_u = u1*u2 / d^2 and new_v_full = num_v / d.
compose_divide(D1, D2, g1, g2, curve) ==
    compose_reduce(
        poly_divmod(poly_mul(D1.u, D2.u, curve.p),
                    poly_mul(g2[1], g2[1], curve.p), curve.p),
        poly_divmod(compose_num_v(D1, D2, g1, g2, curve.p), g2[1], curve.p),
        curve)

\* Lines 141-142: d, c1, c2 = poly_xgcd(d1, v1 + v2)
compose_gcd(D1, D2, g1, curve) ==
    compose_divide(D1, D2, g1,
                   poly_xgcd(g1[1], poly_add(D1.v, D2.v, curve.p), curve.p), curve)

\* Lines 137-166 of CantorAlgorithm.add: composition and reduction, from
\* d1, e1, e2 = poly_xgcd(u1, u2).
compose(D1, D2, curve) ==
    compose_gcd(D1, D2, poly_xgcd(D1.u, D2.u, curve.p), curve)

\* CantorAlgorithm.add(D1, D2): a divisor, or the exception raised.
add(D1, D2, curve) ==
    IF is_identity(D1.u) THEN D2
    ELSE IF is_identity(D2.u) THEN D1
    ELSE compose(D1, D2, curve)

\* CantorAlgorithm.double
double(D, curve) == add(D, D, curve)

\* Lines 179-183: the passes the loop of scalar_mul makes for the scalar k.
RECURSIVE scalar_mul_passes(_)
scalar_mul_passes(k) == IF ~(k > 0) THEN 0 ELSE 1 + scalar_mul_passes(k \div 2)

\* The state after a pass of the loop of scalar_mul, or the exception.
scalar_mul_next(res, addend, k) ==
    IF Raised(res) THEN res
    ELSE IF Raised(addend) THEN addend
    ELSE [res |-> res, addend |-> addend, k |-> k \div 2]

\* The pass of scalar_mul_step_double_first, addend the doubled addend.
double_first_next(st, addend, curve) ==
    IF Raised(addend) THEN addend
    ELSE scalar_mul_next(IF st.k % 2 = 1 THEN add(st.res, addend, curve) ELSE st.res,
                         addend, st.k)

\* scalar_mul_step with the doubling done before the addition, so that the
\* doubled addend is the one added.
scalar_mul_step_double_first(st, curve) ==
    double_first_next(st, double(st.addend, curve), curve)

\* One pass of the loop of scalar_mul (lines 179-183):
\* st = [res, addend, k]; an exception in add ends the call.
scalar_mul_step(st, curve) ==
    scalar_mul_next(IF st.k % 2 = 1 THEN add(st.res, st.addend, curve) ELSE st.res,
                    double(st.addend, curve), st.k)

RECURSIVE scalar_mul_loop(_, _)
scalar_mul_loop(st, curve) ==
    IF Raised(st) THEN st
    ELSE IF ~(st.k > 0) THEN st
    ELSE scalar_mul_loop(scalar_mul_step(st, curve), curve)

\* Line 185: return res
scalar_mul_result(st) == IF Raised(st) THEN st ELSE st.res

\* CantorAlgorithm.scalar_mul(scalar, D): the divisor returned, or the
\* exception raised.
scalar_mul(scalar, D, curve) ==
    scalar_mul_result(scalar_mul_loop([res |-> MumfordDivisor(<<1>>, <<0>>),
                                       addend |-> D, k |-> scalar], curve))

\* jacobian_masking.py:192-193   _curve, CANTOR = CantorAlgorithm(_curve)
_curve == HyperellipticCurve(_f_poly, _p)

CANTOR == _curve

\* jacobian_masking.py:198   BASE_DIVISOR = MumfordDivisor([0, 1], [1], _curve)
BASE_DIVISOR == MumfordDivisor(<<0, 1>>, <<1>>)

\* ---------------------------------------------------------------------
\* Byte strings and hash functions.  A byte string is a term: the encoding
\* of an integer, a message, a digest, or a concatenation.  SHA-256, SHA-512
\* and HMAC-SHA256 build digest terms; the integer a digest stands for
\* (int.from_bytes) is read from a table H: digest -> 0..MaxDigest that the
\* calls fill, so a digest read twice reads the same integer, and H itself
\* is arbitrary.

\* The integers x.to_bytes(32, 'big') can encode are 0 <= x < 2^256; the
\* model scales 2^256 as it scales the 254-bit modulus, to 2^12.
Int32Bytes == 2^12

OverflowError == [exc |-> "OverflowError"]

\* x.to_bytes(32, 'big')
to_bytes32(x) == IF x >= 0 /\ x < Int32Bytes THEN [int32 |-> x] ELSE OverflowError

\* hashlib.sha256(b).digest(), hashlib.sha512(b).digest(),
\* hmac.new(key, msg, sha256).digest(), and a + b
sha256(b) == [sha256 |-> b]

sha512(b) == [sha512 |-> b]

hmac_sha256(key, msg) == [hmac_key |-> key, hmac_msg |-> msg]

cat(a, b) == [cat |-> <<a, b>>]

\* b[:32] of a 64-byte digest
first32(b) == [first32 |-> b]

\* int.from_bytes(b, 'big') of a digest
from_bytes(b, H) == H[b]

\* A hash invocation: the function and the byte strings handed to it.
HashCall(fn, key, data) == [fn |-> fn, key |-> key, data |-> data]

NoKey == [none |-> TRUE]

\* jacobian_masking.py:247   BENCHMARK_SCALAR_BITS = 16, scaled to 1
BENCHMARK_SCALAR_BITS == 1

\* CANTOR.scalar_mul(seed_int, BASE_DIVISOR) of line 251, tabulated over the
\* scalars that line 248 lets through.
BASE_MULTIPLES ==
    LET top == 2 ^ BENCHMARK_SCALAR_BITS
    IN  SubSeq([s \in 1..top |-> scalar_mul(s, BASE_DIVISOR, CANTOR)], 1, top)

\* nonce_seed with the encoding of the key itself in the input of SHA-512.
nonce_seed_unblinded(privkey_int, message) ==
    LET d_bytes == to_bytes32(privkey_int)
        dk == sha256(d_bytes)
        msg_hash == sha256(message)
        blind == hmac_sha256(dk, msg_hash)
        seed_bytes == sha512(cat(d_bytes, msg_hash))
    IN  IF Raised(d_bytes) THEN d_bytes
        ELSE [seed_bytes |-> seed_bytes,
              hashed |-> << HashCall("sha256", NoKey, d_bytes),
                            HashCall("sha256", NoKey, message),
                            HashCall("hmac_sha256", dk, msg_hash),
                            HashCall("sha512", NoKey, cat(d_bytes, msg_hash)) >>]

\* Lines 226-236 of derive_nonce_jacobian: the hash chain down to the seed.
\* [seed_bytes, hashed], hashed the hash invocations made, or the exception.
nonce_seed(privkey_int, message) ==
    LET d_bytes == to_bytes32(privkey_int)
        dk == sha256(d_bytes)
        msg_hash == sha256(message)
        blind == hmac_sha256(dk, msg_hash)
        seed_bytes == sha512(cat(blind, msg_hash))
    IN  IF Raised(d_bytes) THEN d_bytes
        ELSE [seed_bytes |-> seed_bytes,
              hashed |-> << HashCall("sha256", NoKey, d_bytes),
                            HashCall("sha256", NoKey, message),
                            HashCall("hmac_sha256", dk, msg_hash),
                            HashCall("sha512", NoKey, cat(blind, msg_hash)) >>]

\* Lines 239-248: the seed as a scalar, capped.
nonce_scalar(seed_bytes, H) ==
    LET seed_int == (from_bytes(first32(seed_bytes), H) % (_p - 1)) + 1
    IN  (seed_int % (2 ^ BENCHMARK_SCALAR_BITS)) + 1

\* Lines 254-257: the bytes of the four coordinates of D_prime, as hashed.
nonce_coords(D_prime) ==
    LET c == coords(D_prime)
        b == [i \in 1..4 |-> to_bytes32(c[i])]
    IN  IF \E i \in 1..4 : Raised(b[i]) THEN OverflowError
        ELSE [cat |-> <<b[1], b[2], b[3], b[4]>>]

Absent == [absent |-> TRUE]

\* Line 259: return k if k != 0 else 1
nonce_k(k) == IF k # 0 THEN k ELSE 1

\* nonce_hash keeping a count across calls (the digests read so far) and
\* mixing it into the nonce.
nonce_hash_counting(sd, seed_int, cb, ecc_order, H) ==
    IF Raised(cb) THEN cb
    ELSE [ret |-> nonce_k((from_bytes(sha256(cb), H) + Cardinality(DOMAIN H))
                          % ecc_order),
          seed_int |-> seed_int,
          hashed |-> Append(sd.hashed, HashCall("sha256", NoKey, cb))]

\* nonce_hash adding the integer of the seed, as it was before line 248
\* capped it, to the digest of the coordinates.
nonce_hash_seeded(sd, seed_int, cb, ecc_order, H) ==
    IF Raised(cb) THEN cb
    ELSE [ret |-> nonce_k((from_bytes(sha256(cb), H)
                             + from_bytes(first32(sd.seed_bytes), H)) % ecc_order),
          seed_int |-> seed_int,
          hashed |-> Append(sd.hashed, HashCall("sha256", NoKey, cb))]

\* Lines 255-259: the nonce from the coordinate bytes cb of D_prime.
nonce_hash(sd, seed_int, cb, ecc_order, H) ==
    IF Raised(cb) THEN cb
    ELSE [ret |-> nonce_k(from_bytes(sha256(cb), H) % ecc_order),
          seed_int |-> seed_int,
          hashed |-> Append(sd.hashed, HashCall("sha256", NoKey, cb))]

\* Lines 251-254: D_prime and its coordinates.
nonce_divisor(sd, seed_int, D_prime, ecc_order, H) ==
    IF Raised(D_prime) THEN D_prime
    ELSE nonce_hash(sd, seed_int, nonce_coords(D_prime), ecc_order, H)

\* Lines 239-251, from the hash chain sd.
nonce_from_seed(sd, seed_int, ecc_order, H) ==
    nonce_divisor(sd, seed_int, BASE_MULTIPLES[seed_int], ecc_order, H)

\* derive_nonce_jacobian(privkey_int, message, ecc_order) with the digest
\* integers H: [ret, seed_int, hashed], ret the nonce k, or the exception.
derive_nonce_jacobian(privkey_int, message, ecc_order, H) ==
    IF Raised(nonce_seed(privkey_int, message)) THEN nonce_seed(privkey_int, message)
    ELSE nonce_from_seed(nonce_seed(privkey_int, message),
                         nonce_scalar(nonce_seed(privkey_int, message).seed_bytes, H),
                         ecc_order, H)

\* The digest of the coordinates of D_prime, when H does not hold it.
coords_missing(D_prime, H) ==
    IF Raised(D_prime) THEN Absent
    ELSE IF Raised(nonce_coords(D_prime)) THEN Absent
    ELSE IF sha256(nonce_coords(D_prime)) \notin DOMAIN H
         THEN sha256(nonce_coords(D_prime))
    ELSE Absent

\* The first digest whose integer derive_nonce_jacobian reads from the hash
\* chain sd and H does not hold yet; Absent when H holds all it reads.
seed_missing(sd, H) ==
    IF Raised(sd) THEN Absent
    ELSE IF first32(sd.seed_bytes) \notin DOMAIN H THEN first32(sd.seed_bytes)
    ELSE coords_missing(BASE_MULTIPLES[nonce_scalar(sd.seed_bytes, H)], H)

nonce_missing(privkey_int, message, H) == seed_missing(nonce_seed(privkey_int, message), H)

\* ---------------------------------------------------------------------
\* Elliptic-curve layer (ellipticcurve.py)

CurveFp(p, a, b) == [p |-> p, a |-> a, b |-> b]

\* CurveFp.contains_point
contains_point(curve, x, y) ==
    (y * y - (x * x * x + curve.a * x + curve.b)) % curve.p = 0

PointJacobi(x, y, z) == [x |-> x, y |-> y, z |-> z]

\* PointJacobi.to_affine: None for the point at infinity.
None == [none |-> TRUE]

\* Lines 25-27, z_inv the inverse of z.
affine_of(P, z_inv, z_inv2, p) ==
    [x |-> (P.x * z_inv2) % p, y |-> (P.y * ((z_inv2 * z_inv) % p)) % p]

affine_inv(P, z_inv, p) == affine_of(P, z_inv, (z_inv * z_inv) % p, p)

\* to_affine giving the pair (0, 0) for the point at infinity.
to_affine_default(P, curve) ==
    IF P.z = 0 THEN [x |-> 0, y |-> 0]
    ELSE affine_inv(P, pow(P.z, curve.p - 2, curve.p), curve.p)

to_affine(P, curve) ==
    IF P.z = 0 THEN None
    ELSE affine_inv(P, pow(P.z, curve.p - 2, curve.p), curve.p)

\* Lines 66-68 of PointJacobi.double
double_x3(P, y2, s, m, x3, p) ==
    PointJacobi(x3, (m * (s - x3) - 8 * y2 * y2) % p, (2 * P.y * P.z) % p)

\* Line 65
double_m(P, y2, s, m, p) == double_x3(P, y2, s, m, (m * m - 2 * s) % p, p)

\* Lines 63-64
double_y2(P, y2, curve) ==
    double_m(P, y2, (4 * P.x * y2) % curve.p,
             (3 * P.x * P.x + curve.a * P.z * P.z * P.z * P.z) % curve.p, curve.p)

\* PointJacobi.double
point_double(P, curve) ==
    IF P.z = 0 THEN P
    ELSE double_y2(P, (P.y * P.y) % curve.p, curve)

\* Lines 53-55 of PointJacobi.__add__
add_x3(P, Q, s1, h, r, h3, v, x3, p) ==
    PointJacobi(x3, (r * (v - x3) - s1 * h3) % p, (P.z * Q.z * h) % p)

\* Line 52
add_v(P, Q, s1, h, r, h3, v, p) ==
    add_x3(P, Q, s1, h, r, h3, v, (r * r - h3 - 2 * v) % p, p)

\* Lines 49-50
add_h2(P, Q, u1, s1, h, r, h2, p) ==
    add_v(P, Q, s1, h, r, (h2 * h) % p, (u1 * h2) % p, p)

\* add_u answering the point at infinity whenever u1 = u2, without the
\* doubling of line 46.
add_u_never_doubles(P, Q, u1, u2, s1, s2, curve) ==
    IF u1 = u2
    THEN PointJacobi(0, 1, 0)
    ELSE add_h2(P, Q, u1, s1, (u2 - u1) % curve.p, (s2 - s1) % curve.p,
                (((u2 - u1) % curve.p) * ((u2 - u1) % curve.p)) % curve.p, curve.p)

\* Lines 41-48
add_u(P, Q, u1, u2, s1, s2, curve) ==
    IF u1 = u2
    THEN IF s1 # s2 THEN PointJacobi(0, 1, 0) ELSE point_double(P, curve)
    ELSE add_h2(P, Q, u1, s1, (u2 - u1) % curve.p, (s2 - s1) % curve.p,
                (((u2 - u1) % curve.p) * ((u2 - u1) % curve.p)) % curve.p, curve.p)

\* PointJacobi.__add__
point_add(P, Q, curve) ==
    IF P.z = 0 THEN Q
    ELSE IF Q.z = 0 THEN P
    ELSE add_u(P, Q, (P.x * Q.z * Q.z) % curve.p, (Q.x * P.z * P.z) % curve.p,
               (P.y * Q.z * Q.z * Q.z) % curve.p, (Q.y * P.z * P.z * P.z) % curve.p,
               curve)

\* PointJacobi.__mul__: double-and-add from the point at infinity.
RECURSIVE point_mul_loop(_, _, _, _)
point_mul_loop(res, addend, k, curve) ==
    IF ~(k > 0) THEN res
    ELSE point_mul_loop(IF k % 2 = 1 THEN point_add(res, addend, curve) ELSE res,
                        point_double(addend, curve), k \div 2, curve)

point_mul(P, scalar, curve) == point_mul_loop(PointJacobi(0, 1, 0), P, scalar, curve)

\* curves.py is not among the sources.  SECP256k1 stands for the named curve
\* y^2 = x^3 + 7 of prime order; the model takes that equation over F_13,
\* where the group has the prime order 7.
SECP256k1 ==
    [curve |-> CurveFp(13, 0, 7), generator |-> PointJacobi(11, 5, 1), order |-> 7]

\* ---------------------------------------------------------------------
\* RFC 6979 nonce (rfc6979.py)

RECURSIVE bit_length(_)
bit_length(x) == IF x = 0 THEN 0 ELSE 1 + bit_length(x \div 2)

\* hash_func().digest_size * 8 is 256 for SHA-256, the bit length of the
\* order of secp256k1; the model scales it with the order.
holen_bits == bit_length(SECP256k1.order)

\* x.to_bytes(length, 'big')
to_bytes(x, length) ==
    IF x >= 0 /\ x < 2 ^ (8 * length) THEN [int |-> x, len |-> length]
    ELSE OverflowError

\* Lines 9-40: the state [K, V] before the loop, and the digest read (h1).
\* The exception raised when secexp does not fit rolen bytes.
rfc_setup(order, secexp, data, H) ==
    LET qlen == bit_length(order)
        h1 == sha256(data)
        V0 == [octets |-> "01"]
        K0 == [octets |-> "00"]
        rolen == (qlen + 7) \div 8
        priv == to_bytes(secexp, rolen)
        h1_raw == from_bytes(h1, H)
        h1_int == (IF holen_bits > qlen
                   THEN h1_raw \div (2 ^ (holen_bits - qlen)) ELSE h1_raw) % order
        h1_bytes == to_bytes(h1_int, rolen)
        K1 == hmac_sha256(K0, [cat |-> <<V0, [octets |-> "00"], priv, h1_bytes>>])
        V1 == hmac_sha256(K1, V0)
        K2 == hmac_sha256(K1, [cat |-> <<V1, [octets |-> "01"], priv, h1_bytes>>])
        V2 == hmac_sha256(K2, V1)
    IN  IF Raised(priv) THEN priv ELSE [K |-> K2, V |-> V2]

\* The loop of generate_k is `while True`; the model follows it for this many
\* rejected candidates and reports NoReturn for a call still looping then.
MaxRetry == 1

\* Lines 42-51: the candidate from the state st = [K, V].  One block of V
\* makes it, the digest having as many bits as the order.
rfc_candidate(st, order, H) ==
    LET qlen == bit_length(order)
        t_int == from_bytes(hmac_sha256(st.K, st.V), H)
    IN  IF holen_bits > qlen THEN t_int \div (2 ^ (holen_bits - qlen)) ELSE t_int

\* Lines 56-57: K and V after a rejected candidate.
rfc_update(st) ==
    LET V == hmac_sha256(st.K, st.V)
        K == hmac_sha256(st.K, cat(V, [octets |-> "00"]))
    IN  [K |-> K, V |-> hmac_sha256(K, V)]

\* rfc_accept letting the candidate 0 through.
RECURSIVE rfc_accept_from_zero(_, _, _, _, _)
rfc_accept_from_zero(st, k, rejected, order, H) ==
    IF 0 <= k /\ k < order THEN [ret |-> k]
    ELSE IF rejected + 1 > MaxRetry THEN NoReturn
    ELSE rfc_accept_from_zero(rfc_update(st), rfc_candidate(rfc_update(st), order, H),
                              rejected + 1, order, H)

\* Lines 52-57, k the candidate from the state st after `rejected` rejected
\* candidates.
RECURSIVE rfc_accept(_, _, _, _, _)
rfc_accept(st, k, rejected, order, H) ==
    IF 1 <= k /\ k < order THEN [ret |-> k]
    ELSE IF rejected + 1 > MaxRetry THEN NoReturn
    ELSE rfc_accept(rfc_update(st), rfc_candidate(rfc_update(st), order, H),
                    rejected + 1, order, H)

\* Lines 41-57, from the state st.
rfc_loop(st, order, H) ==
    IF Raised(st) THEN st ELSE rfc_accept(st, rfc_candidate(st, order, H), 0, order, H)

\* generate_k(order, secexp, hash_func, data) with SHA-256: [ret], or the
\* exception.
generate_k(order, secexp, data, H) == rfc_loop(rfc_setup(order, secexp, data, H), order, H)

\* The first digest generate_k reads from the state st that H does not hold.
RECURSIVE rfc_missing(_, _, _, _)
rfc_missing(st, rejected, order, H) ==
    IF Raised(st) THEN Absent
    ELSE IF rejected > MaxRetry THEN Absent
    ELSE IF hmac_sha256(st.K, st.V) \notin DOMAIN H THEN hmac_sha256(st.K, st.V)
    ELSE IF 1 <= rfc_candidate(st, order, H) /\ rfc_candidate(st, order, H) < order
         THEN Absent
    ELSE rfc_missing(rfc_update(st), rejected + 1, order, H)

generate_k_missing(order, secexp, data, H) ==
    IF sha256(data) \notin DOMAIN H THEN sha256(data)
    ELSE rfc_missing(rfc_setup(order, secexp, data, H), 0, order, H)

\* ---------------------------------------------------------------------
\* Keys (keys.py, hb_decdsa_scheme.py) on the curve SECP256k1

ValueError == [exc |-> "ValueError"]

\* The range check of verify letting r = 0 through.
in_range_from_zero(r, s, n) == 0 <= r /\ r < n /\ 1 <= s /\ s < n

\* The range check of verify admitting only the lower half of the values of
\* s (a canonical, low-s form).
in_range_low_s(r, s, n) == 1 <= r /\ r < n /\ 1 <= s /\ s <= n \div 2

\* keys.py:15   1 <= r < n and 1 <= s < n
in_range(r, s, n) == 1 <= r /\ r < n /\ 1 <= s /\ s < n

\* keys.py:28-32
verify_affine(affine, r, n) ==
    IF affine = None THEN [ret |-> FALSE] ELSE [ret |-> (affine.x % n) = r]

\* keys.py:26-27
verify_point(pubkey, r, u1, u2) ==
    verify_affine(
        to_affine(point_add(point_mul(SECP256k1.generator, u1, SECP256k1.curve),
                            point_mul(pubkey, u2, SECP256k1.curve),
                            SECP256k1.curve), SECP256k1.curve),
        r, SECP256k1.order)

\* keys.py:23-24
verify_w(pubkey, r, e, w, n) == verify_point(pubkey, r, (e * w) % n, (r * w) % n)

\* keys.py:19-22
verify_e(pubkey, r, s, e, n) ==
    verify_w(pubkey, r, IF e = 0 THEN 1 ELSE e, pow(s, n - 2, n), n)

\* VerifyingKey.verify(signature, message) of the key with point pubkey;
\* signature = (r, s).  [ret |-> TRUE or FALSE].
verify(pubkey, r, s, message, H) ==
    IF ~in_range(r, s, SECP256k1.order) THEN [ret |-> FALSE]
    ELSE verify_e(pubkey, r, s, from_bytes(sha256(message), H) % SECP256k1.order,
                  SECP256k1.order)

\* The digest verify reads, when H does not hold it and verify gets to it.
verify_missing(r, s, message, H) ==
    LET n == SECP256k1.order
    IN  IF ~in_range(r, s, n) THEN Absent
        ELSE IF sha256(message) \notin DOMAIN H THEN sha256(message)
        ELSE Absent

\* keys.py:22-26   point = generator * u1 + pubkey * u2, for the e of lines
\* 18-20
verify_sum(pubkey, r, s, e, n) ==
    point_add(point_mul(SECP256k1.generator, (e * pow(s, n - 2, n)) % n,
                        SECP256k1.curve),
              point_mul(pubkey, (r * pow(s, n - 2, n)) % n, SECP256k1.curve),
              SECP256k1.curve)

\* SigningKey.__init__ without a verifying key: the public point.
public_point(privkey) == point_mul(SECP256k1.generator, privkey, SECP256k1.curve)

\* generate reducing modulo the order.
generate_mod_order(urandom) == urandom % SECP256k1.order

\* SigningKey.generate: urandom the integer of os.urandom(32).
generate(urandom) == (urandom % (SECP256k1.order - 1)) + 1

\* keys.py:64-66
sign_digest_r(affine, n) ==
    IF affine = None THEN ValueError
    ELSE IF affine.x % n = 0 THEN ValueError
    ELSE [ret |-> affine.x % n]

\* keys.py:58-59
sign_digest_point(k) ==
    to_affine(point_mul(SECP256k1.generator, k, SECP256k1.curve), SECP256k1.curve)

\* sign_digest_s without the check of s.
sign_digest_unchecked_s(r, s) == [ret |-> <<r, s>>]

\* keys.py:70-73
sign_digest_s(r, s) == IF s = 0 THEN ValueError ELSE [ret |-> <<r, s>>]

\* keys.py:68-69
sign_digest_k_inv(privkey, digest_val, k, r, n) ==
    IF Raised(r) THEN r
    ELSE sign_digest_s(r.ret, (pow(k, n - 2, n) * (digest_val + privkey * r.ret)) % n)

\* SigningKey.sign_digest(digest_val, k): [ret |-> <<r, s>>], or ValueError.
sign_digest(privkey, digest_val, k) ==
    sign_digest_k_inv(privkey, digest_val, k,
                      sign_digest_r(sign_digest_point(k), SECP256k1.order),
                      SECP256k1.order)

\* keys.py:79, 90   return self.sign_digest(e, k), k the result of the nonce
\* function.
sign_with_k(privkey, e, k) == IF Raised(k) THEN k ELSE sign_digest(privkey, e, k.ret)

\* SigningKey.sign_deterministic(message)
sign_deterministic(privkey, message, H) ==
    sign_with_k(privkey, from_bytes(sha256(message), H) % SECP256k1.order,
                generate_k(SECP256k1.order, privkey, message, H))

\* SigningKey.sign_with_nonce_fn(message, derive_nonce_jacobian), which is
\* HBDECDSAKey.sign(message)
sign(privkey, message, H) ==
    sign_with_k(privkey, from_bytes(sha256(message), H) % SECP256k1.order,
                derive_nonce_jacobian(privkey, message, SECP256k1.order, H))

sign_deterministic_missing(privkey, message, H) ==
    generate_k_missing(SECP256k1.order, privkey, message, H)

sign_missing(privkey, message, H) ==
    IF sha256(message) \notin DOMAIN H THEN sha256(message)
    ELSE nonce_missing(privkey, message, H)

\* Byte strings of keys are [bytes |-> the sequence of bytes].  A byte holds ByteBase
\* values and a coordinate takes CoordBytes bytes: the 32 bytes of 256 values
\* of the source, scaled as the curve is.
ByteBase == 8

CoordBytes == 2

\* x.to_bytes(length, 'big'): big-endian, OverflowError when x does not fit.
RECURSIVE digits_be(_, _)
digits_be(x, length) ==
    IF length = 0 THEN <<>>
    ELSE Append(digits_be(x \div ByteBase, length - 1), x % ByteBase)

to_bytes_be(x, length) ==
    IF x < 0 \/ x >= ByteBase ^ length THEN OverflowError
    ELSE [bytes |-> digits_be(x, length)]

\* int.from_bytes(b, 'big'); 0 for the empty string.
RECURSIVE from_bytes_be(_)
from_bytes_be(b) ==
    IF Len(b) = 0 THEN 0
    ELSE from_bytes_be(SubSeq(b, 1, Len(b) - 1)) * ByteBase + b[Len(b)]

\* string[:n] and string[n:]
slice_to(string, n) == SubSeq(string, 1, IF n < Len(string) THEN n ELSE Len(string))

slice_from(string, n) == SubSeq(string, n + 1, Len(string))

\* hb_decdsa_scheme.py:31   b'\x04' + x.to_bytes(32, 'big') + y.to_bytes(32, 'big')
encode_point(X, Y) ==
    IF Raised(X) THEN X
    ELSE IF Raised(Y) THEN Y
    ELSE [bytes |-> <<4>> \o X.bytes \o Y.bytes]

\* hb_decdsa_scheme.py:27-31
encode_affine(affine) ==
    IF affine = None THEN ValueError
    ELSE encode_point(to_bytes_be(affine.x, CoordBytes), to_bytes_be(affine.y, CoordBytes))

\* HBDECDSAKey.public_key_bytes of the key with the secret privkey
public_key_bytes(privkey) ==
    encode_affine(to_affine(public_point(privkey), SECP256k1.curve))

\* from_string taking the coordinates after the tag byte of the encoding.
from_string_tagged(string) ==
    PointJacobi(from_bytes_be(SubSeq(string.bytes, 2, CoordBytes + 1)),
                from_bytes_be(slice_from(string.bytes, CoordBytes + 1)), 1)

\* VerifyingKey.from_string(string): the point of the verifying key
from_string(string) ==
    PointJacobi(from_bytes_be(slice_to(string.bytes, CoordBytes)),
                from_bytes_be(slice_from(string.bytes, CoordBytes)), 1)

\* ---------------------------------------------------------------------
\* State: the digest integers read so far, and the calls made with what they
\* returned or raised.

VARIABLES H, calls, heap

vars == <<H, calls, heap>>

\* The address of the object BASE_DIVISOR (jacobian_masking.py:198); the
\* objects a call makes have the call for owner.
BaseAddr == [owner |-> 0, n |-> 0]

\* The memory all calls share: the divisor objects by address, the list
\* _f_poly of the curve (line 191), the modulus _p (line 7), and the key
\* objects of the callers.
SharedMemory ==
    [objs |-> (BaseAddr :> BASE_DIVISOR), f |-> _f_poly, p |-> _p, keys |-> <<>>]

Init == H = <<>> /\ calls = <<>> /\ heap = SharedMemory

\* ---------------------------------------------------------------------
\* Calls into the divisor arithmetic

MaxCoef == 1

MaxScalar == 3

Polys(len) == [1..len -> 0..MaxCoef]

\* Divisors of the reduced shape: u monic of degree at most 2, v of degree
\* at most 1, coefficients up to MaxCoef.
Divisors ==
    { MumfordDivisor(u \o <<1>>, v) :
        u \in Polys(0) \cup Polys(1) \cup Polys(2), v \in Polys(1) \cup Polys(2) }

\* deg(u) <= 2 and u monic
Reduced(D) == Len(D.u) <= 3 /\ D.u[Len(D.u)] = 1

\* v^2 = f (mod u), for monic u
OnCurve(D, curve) ==
    poly_divmod(poly_sub(poly_mul(D.v, D.v, curve.p), curve.f, curve.p),
                D.u, curve.p).r = <<0>>

\* A valid reduced divisor in Mumford form: v of smaller degree than u.
Valid(D, curve) ==
    IF Raised(D) THEN FALSE
    ELSE /\ Reduced(D)
         /\ Len(D.v) < Len(D.u) \/ D.v = <<0>>
         /\ OnCurve(D, curve)

ValidDivisors == { D \in Divisors : Valid(D, CANTOR) }

\* jacobian_masking.py:173-175   the identity, u = [1] and v = [0]
IDENTITY == MumfordDivisor(<<1>>, <<0>>)

\* The operands add returns the other operand for: the identity, and the
\* pairs whose u is the zero polynomial.
IdentityLike == { IDENTITY } \cup { MumfordDivisor(<<0>>, v) : v \in Polys(1) }

\* The opposite of the divisor D: the same u, and -v modulo p.
Opposite(D, p) == MumfordDivisor(D.u, poly_sub(<<0>>, D.v, p))

CallAdd(D1, D2) ==
    /\ calls = <<>>
    /\ calls' = << [op |-> "add", D1 |-> D1, D2 |-> D2,
                    ret |-> add(D1, D2, CANTOR)] >>
    /\ UNCHANGED <<H, heap>>

CallDouble(D) ==
    /\ calls = <<>>
    /\ calls' = << [op |-> "double", D |-> D, ret |-> double(D, CANTOR)] >>
    /\ UNCHANGED <<H, heap>>

CallScalarMul(scalar, D) ==
    /\ calls = <<>>
    /\ calls' = << [op |-> "scalar_mul", scalar |-> scalar, D |-> D,
                    ret |-> scalar_mul(scalar, D, CANTOR)] >>
    /\ UNCHANGED <<H, heap>>

\* Lines 145-147 of add: new_u, _ = poly_divmod(u1*u2, d^2), g2 = <<d, c1, c2>>.
add_new_u(D1, D2, g2, p) ==
    poly_divmod(poly_mul(D1.u, D2.u, p), poly_mul(g2[1], g2[1], p), p)

\* Lines 150-164 of add: new_v_full, _ = poly_divmod(num_v, d)
add_new_v_full(D1, D2, g1, g2, p) ==
    poly_divmod(compose_num_v(D1, D2, g1, g2, p), g2[1], p)

\* The call self._reduce(new_u, new_v_full) of line 166 with what it returned:
\* ret = [u, v, iter], iter the passes of its loop, or NoReturn.
reduce_outcome(D1, D2, u, v, red) ==
    [op |-> "_reduce", D1 |-> D1, D2 |-> D2, reached |-> TRUE, u |-> u, v |-> v,
     ret |-> red]

\* add(D1, D2) down to line 166; reached is FALSE when a division raised
\* before _reduce was called.
reduce_record(D1, D2, new_u, new_v_full, curve) ==
    IF Raised(new_u) \/ Raised(new_v_full)
    THEN [op |-> "_reduce", D1 |-> D1, D2 |-> D2, reached |-> FALSE]
    ELSE reduce_outcome(D1, D2, new_u.q, new_v_full.q,
                        reduce(new_u.q, new_v_full.q, curve))

\* Lines 141-164, from d1, e1, e2 = g1 and d, c1, c2 = g2.
reduce_after_gcd(D1, D2, g1, g2, curve) ==
    reduce_record(D1, D2, add_new_u(D1, D2, g2, curve.p),
                  add_new_v_full(D1, D2, g1, g2, curve.p), curve)

reduce_after_d1(D1, D2, g1, curve) ==
    reduce_after_gcd(D1, D2, g1,
                     poly_xgcd(g1[1], poly_add(D1.v, D2.v, curve.p), curve.p), curve)

\* The call of _reduce that add(D1, D2) makes.
reduce_in_add(D1, D2, curve) ==
    reduce_after_d1(D1, D2, poly_xgcd(D1.u, D2.u, curve.p), curve)

\* CANTOR.add(D1, D2) of two divisors that are not the identity, observed at
\* its call of _reduce.
CallReduce(D1, D2) ==
    /\ calls = <<>>
    /\ ~is_identity(D1.u) /\ ~is_identity(D2.u)
    /\ calls' = << reduce_in_add(D1, D2, CANTOR) >>
    /\ UNCHANGED <<H, heap>>

NextDiv ==
    \/ \E D1 \in ValidDivisors, D2 \in ValidDivisors : CallAdd(D1, D2)
    \/ \E D \in ValidDivisors, Z \in IdentityLike : CallAdd(D, Z)
    \/ \E Z \in IdentityLike, D \in ValidDivisors : CallAdd(Z, D)
    \/ \E D \in ValidDivisors : CallAdd(D, Opposite(D, _p))
    \/ \E D1 \in ValidDivisors, D2 \in ValidDivisors : CallReduce(D1, D2)
    \/ \E D \in ValidDivisors : CallDouble(D)
    \/ \E scalar \in 0..2, D \in Divisors : CallScalarMul(scalar, D)
    \/ \E scalar \in 0..(2 * MaxScalar), D \in ValidDivisors : CallScalarMul(scalar, D)

SpecDiv == Init /\ [][NextDiv]_vars

\* ---------------------------------------------------------------------
\* Digest integers: a call reads the integers of the digests it computes
\* from H; a digest H does not hold yet gets an integer of DigestInts, and
\* keeps it.

MaxDigest == 2

DigestInts == 0..MaxDigest

\* main.py signs b'hello' and b'test'
Messages == { [msg |-> "hello"], [msg |-> "test"] }

Ext(T, t, v) == IF t = Absent THEN T ELSE T @@ (t :> v)

\* The first digest the call c reads that T does not hold.
Missing(c, T) ==
    CASE c.op = "sign_deterministic" ->
            sign_deterministic_missing(c.privkey, c.message, T)
      [] c.op = "sign" -> sign_missing(c.privkey, c.message, T)
      [] c.op = "verify" -> verify_missing(c.r, c.s, c.message, T)
      [] c.op = "derive_nonce_jacobian" -> nonce_missing(c.privkey, c.message, T)
      [] OTHER -> Absent

\* The tables T can grow into while the call c runs: each digest the call
\* reads and T does not hold gets one of the integers of DigestInts.
RECURSIVE Fill(_, _)
RECURSIVE FillNext(_, _, _)
FillNext(c, T, t) ==
    IF t = Absent THEN {T}
    ELSE UNION { Fill(c, Ext(T, t, v)) : v \in DigestInts }

Fill(c, T) == FillNext(c, T, Missing(c, T))

\* ---------------------------------------------------------------------
\* Calls into the signature scheme (main.py run_tests, keys.py)

MaxRand == 6

\* main.py:10, 20   the verification of the signature made, when one was made
verify_sig(privkey, message, sig, T) ==
    IF Raised(sig) THEN sig
    ELSE verify(public_point(privkey), sig.ret[1], sig.ret[2], message, T)

\* One of the two tests of run_tests: the key, the message, the signature and
\* the result of verifying it.
Test(op, privkey, message, sig, T) ==
    [op |-> op, privkey |-> privkey, message |-> message, sig |-> sig,
     verified |-> verify_sig(privkey, message, sig, T)]

\* main.py:8-10  sk = SigningKey.generate(); sig = sk.sign_deterministic(msg);
\* vk.verify(sig, msg)
RunTestECC(urandom, message) ==
    /\ calls = <<>>
    /\ \E T \in Fill([op |-> "sign_deterministic", privkey |-> generate(urandom),
                       message |-> message], H) :
         /\ H' = T /\ heap' = heap
         /\ calls' = << Test("test_ecc", generate(urandom), message,
                             sign_deterministic(generate(urandom), message, T), T) >>

\* main.py:18-20  key = HBDECDSAKey.generate(); s = key.sign(msg);
\* key.verify(msg, s)
RunTestHybrid(urandom, message) ==
    /\ calls = <<>>
    /\ \E T \in Fill([op |-> "sign", privkey |-> generate(urandom),
                       message |-> message], H) :
         /\ H' = T /\ heap' = heap
         /\ calls' = << Test("test_hybrid", generate(urandom), message,
                             sign(generate(urandom), message, T), T) >>

\* VerifyingKey.verify((r, s), message) under the public key of privkey
CallVerify(privkey, message, r, s) ==
    /\ calls = <<>>
    /\ LET c == [op |-> "verify", privkey |-> privkey, message |-> message,
                 r |-> r, s |-> s]
       IN  \E T \in Fill(c, H) :
             /\ H' = T /\ heap' = heap
             /\ calls' = << c @@ verify(public_point(privkey), r, s, message, T) >>

\* SigningKey.sign_digest(digest_val, k) of the key privkey
CallSignDigest(privkey, digest_val, k) ==
    /\ calls = <<>>
    /\ calls' = << [op |-> "sign_digest", privkey |-> privkey,
                    digest_val |-> digest_val, k |-> k]
                   @@ sign_digest(privkey, digest_val, k) >>
    /\ UNCHANGED <<H, heap>>

\* The orders the nonce is derived for: the smallest, that of SECP256k1, and
\* one whose scalars outgrow 32 bytes.
Orders == { 2, SECP256k1.order, Int32Bytes + 1 }

\* The private keys the nonce is derived for under ecc_order: those of
\* SECP256k1 and those around the largest integer 32 bytes encode.
DeriveKeys(ecc_order) ==
    { d \in 1..(ecc_order - 1) : d < SECP256k1.order \/ d >= Int32Bytes - 1 }

\* derive_nonce_jacobian(privkey_int, message, ecc_order), called once
CallDerive(privkey_int, message, ecc_order) ==
    /\ calls = <<>>
    /\ LET c == [op |-> "derive_nonce_jacobian", privkey |-> privkey_int,
                 message |-> message, ecc_order |-> ecc_order]
       IN  \E T \in Fill(c, H) :
             /\ H' = T /\ heap' = heap
             /\ calls' = << c @@ derive_nonce_jacobian(privkey_int, message,
                                                      ecc_order, T) >>

NextCall ==
    \/ \E urandom \in 0..MaxRand, message \in Messages : RunTestECC(urandom, message)
    \/ \E urandom \in 0..MaxRand, message \in Messages : RunTestHybrid(urandom, message)
    \/ \E privkey \in 0..(SECP256k1.order - 1), message \in Messages,
          r \in 0..(SECP256k1.order + 1), s \in 0..(SECP256k1.order + 1) :
            CallVerify(privkey, message, r, s)
    \/ \E privkey \in 1..(SECP256k1.order - 1), digest_val \in 0..(SECP256k1.order - 1),
          k \in 0..SECP256k1.order : CallSignDigest(privkey, digest_val, k)
    \/ \E ecc_order \in Orders : \E privkey_int \in DeriveKeys(ecc_order),
          message \in Messages : CallDerive(privkey_int, message, ecc_order)

SpecCall == Init /\ [][NextCall]_vars

\* ---------------------------------------------------------------------
\* Two verifications under one key: of a signature (r, s), then of the same
\* r with another s

\* VerifyingKey.verify((r, s2), message) after the verification of (r, s)
\* under the same key and for the same message
VerifyAgain(s2) ==
    /\ Len(calls) = 1
    /\ calls[1].op = "verify"
    /\ LET c == [op |-> "verify", privkey |-> calls[1].privkey,
                 message |-> calls[1].message, r |-> calls[1].r, s |-> s2]
       IN  \E T \in Fill(c, H) :
             /\ H' = T /\ heap' = heap
             /\ calls' = Append(calls,
                    c @@ verify(public_point(c.privkey), c.r, s2, c.message, T))

NextVerify ==
    \/ \E privkey \in 0..(SECP256k1.order - 1), message \in Messages,
          r \in 0..(SECP256k1.order + 1), s \in 0..(SECP256k1.order + 1) :
            CallVerify(privkey, message, r, s)
    \/ \E s2 \in 0..(SECP256k1.order + 1) : VerifyAgain(s2)

SpecVerify == Init /\ [][NextVerify]_vars

\* ---------------------------------------------------------------------
\* Calls into the hybrid nonce derivation, one after another

MaxCalls == 3

\* derive_nonce_jacobian(privkey_int, message, ecc_order)
DeriveNonce(privkey_int, message, ecc_order) ==
    /\ Len(calls) < MaxCalls
    /\ LET c == [op |-> "derive_nonce_jacobian", privkey |-> privkey_int,
                 message |-> message, ecc_order |-> ecc_order]
       IN  \E T \in Fill(c, H) :
             /\ H' = T /\ heap' = heap
             /\ calls' = Append(calls,
                    c @@ derive_nonce_jacobian(privkey_int, message, ecc_order, T))

\* HBDECDSAKey(privkey).sign(message)
Sign(privkey, message) ==
    /\ Len(calls) < MaxCalls
    /\ LET c == [op |-> "sign", privkey |-> privkey, message |-> message]
       IN  \E T \in Fill(c, H) :
             /\ H' = T /\ heap' = heap
             /\ calls' = Append(calls, c @@ sign(privkey, message, T))

NextNonce ==
    \/ \E message \in Messages : DeriveNonce(1, message, SECP256k1.order)
    \/ \E message \in Messages : Sign(1, message)

SpecNonce == Init /\ [][NextNonce]_vars

\* Nonce derivations one after another, for any of two keys and any message
NextWindow ==
    \E privkey_int \in 1..2, message \in Messages :
        DeriveNonce(privkey_int, message, SECP256k1.order)

SpecWindow == Init /\ [][NextWindow]_vars

\* ---------------------------------------------------------------------
\* Calls of the polynomial arithmetic (poly_divmod, poly_xgcd)

MaxLen == 2

\* The coefficients tried: zero, one, and the small divisors of the modulus
\* _p, which have no inverse.
PolyCoefs == {0, 1} \cup { x \in 2..9 : _p % x = 0 }

\* Canonical polynomials: no trailing zero coefficient but in [0].
CanonicalPolys ==
    { a \in UNION { [1..n -> PolyCoefs] : n \in 1..MaxLen } : poly_strip(a) = a }

\* poly_divmod(a, b, _p), called once
CallDivmod(a, b) ==
    /\ calls = <<>>
    /\ calls' = << [op |-> "poly_divmod", a |-> a, b |-> b]
                   @@ poly_divmod(a, b, _p) >>
    /\ UNCHANGED <<H, heap>>

\* What poly_xgcd(a, b, _p) returns from the state st its loop ends in, with
\* the passes the loop made and the remainder it ended on.
xgcd_record(a, b, st, ret) ==
    [op |-> "poly_xgcd", a |-> a, b |-> b, gcd |-> ret[1], c1 |-> ret[2],
     c2 |-> ret[3], passes |-> st.iter, r |-> st.r]

xgcd_call(a, b, st) == xgcd_record(a, b, st, xgcd_result(st, _p))

\* poly_xgcd(a, b, _p), called once
CallXgcd(a, b) ==
    /\ calls = <<>>
    /\ calls' = << xgcd_call(a, b, xgcd_loop(xgcd_init(a, b), XGCD_ITERATIONS, _p)) >>
    /\ UNCHANGED <<H, heap>>

NextPoly ==
    \/ \E a \in CanonicalPolys, b \in CanonicalPolys : CallDivmod(a, b)
    \/ \E a \in CanonicalPolys, b \in CanonicalPolys : CallXgcd(a, b)

SpecPoly == Init /\ [][NextPoly]_vars

\* ---------------------------------------------------------------------
\* Calls of the polynomial arithmetic with any coefficient lists, canonical
\* or not

\* Coefficient lists, trailing zeros included, of up to MaxLen + 1 entries:
\* one more than the canonical polynomials, so that a list with a trailing
\* zero can be shorter than the list it is divided by.
CoefLists == UNION { [1..n -> PolyCoefs] : n \in 1..(MaxLen + 1) }

ArithFns ==
    { "poly_add", "poly_sub", "poly_mul", "poly_divmod", "poly_xgcd",
      "MumfordDivisor" }

\* The polynomials poly_divmod returned: none when it raised.
divmod_returned(dm) == IF Raised(dm) THEN <<>> ELSE << dm.q, dm.r >>

\* The polynomials the function fn returns for the lists a and b, or stores
\* (the u and v of MumfordDivisor(a, b, _curve)).
arith_returned(fn, a, b, p) ==
    CASE fn = "poly_add" -> << poly_add(a, b, p) >>
      [] fn = "poly_sub" -> << poly_sub(a, b, p) >>
      [] fn = "poly_mul" -> << poly_mul(a, b, p) >>
      [] fn = "poly_divmod" -> divmod_returned(poly_divmod(a, b, p))
      [] fn = "poly_xgcd" -> poly_xgcd(a, b, p)
      [] OTHER -> << MumfordDivisor(a, b).u, MumfordDivisor(a, b).v >>

\* The caller's two lists after the call: the polynomial functions write
\* into lists of their own (lines 16, 24, 32) or into copies (lines 39-40,
\* 56); MumfordDivisor strips the lists it is given (lines 90-91, poly_strip
\* pops in place).
args_after(fn, a, b) ==
    IF fn = "MumfordDivisor" THEN << poly_strip(a), poly_strip(b) >> ELSE << a, b >>

\* fn(a, b, _p), called once
CallArith(fn, a, b) ==
    /\ calls = <<>>
    /\ calls' = << [op |-> "arith", fn |-> fn, a |-> a, b |-> b,
                    returned |-> arith_returned(fn, a, b, _p),
                    after |-> args_after(fn, a, b)] >>
    /\ UNCHANGED <<H, heap>>

NextArith == \E fn \in ArithFns, a \in CoefLists, b \in CoefLists : CallArith(fn, a, b)

SpecArith == Init /\ [][NextArith]_vars

\* ---------------------------------------------------------------------
\* Calls on keys and their encodings (keys.py, hb_decdsa_scheme.py)

\* The encoding and the point decoded from it, when there is an encoding
key_record(privkey, encoded) ==
    [op |-> "public_key_bytes", privkey |-> privkey,
     affine |-> to_affine(public_point(privkey), SECP256k1.curve),
     ret |-> encoded,
     decoded |-> IF Raised(encoded) THEN encoded ELSE from_string(encoded)]

\* key = HBDECDSAKey(privkey); VerifyingKey.from_string(key.public_key_bytes)
CallPublicKeyBytes(privkey) ==
    /\ calls = <<>>
    /\ calls' = << key_record(privkey, public_key_bytes(privkey)) >>
    /\ UNCHANGED <<H, heap>>

\* The strings from_string is given: two coordinates of CoordBytes bytes
\* each, on the curve or off it, the same with a byte missing or with the
\* tag byte in front, and the empty string.
KeyStrings ==
    LET pairs == { digits_be(x, CoordBytes) \o digits_be(y, CoordBytes) :
                     x \in 0..(SECP256k1.curve.p - 1), y \in 0..(SECP256k1.curve.p - 1) }
    IN  { [bytes |-> b] : b \in pairs \cup { SubSeq(b, 1, Len(b) - 1) : b \in pairs }
                                     \cup { <<4>> \o b : b \in pairs } \cup { <<>> } }

\* VerifyingKey.from_string(string), called once
CallFromString(string) ==
    /\ calls = <<>>
    /\ calls' = << [op |-> "from_string", string |-> string,
                    ret |-> from_string(string)] >>
    /\ UNCHANGED <<H, heap>>

\* SigningKey.generate() and HBDECDSAKey.generate(), urandom the integer of
\* the bytes of os.urandom(32)
CallGenerate(urandom) ==
    /\ calls = <<>>
    /\ calls' = << [op |-> "generate", urandom |-> urandom,
                    privkey |-> generate(urandom),
                    pubkey |-> public_point(generate(urandom))] >>
    /\ UNCHANGED <<H, heap>>

NextKey ==
    \/ \E privkey \in 0..SECP256k1.order : CallPublicKeyBytes(privkey)
    \/ \E string \in KeyStrings : CallFromString(string)
    \/ \E urandom \in 0..(2 * MaxRand) : CallGenerate(urandom)

SpecKey == Init /\ [][NextKey]_vars

\* ---------------------------------------------------------------------
\* Calls of the point arithmetic (ellipticcurve.py) on the Jacobian
\* representatives of the points of the curve

\* The affine points of the curve, as pairs.
AffinePoints(curve) ==
    { A \in (0..(curve.p - 1)) \X (0..(curve.p - 1)) : contains_point(curve, A[1], A[2]) }

\* The representative (x z^2, y z^3, z) of the affine point A, z not zero.
Representative(A, z, p) == PointJacobi((A[1] * z * z) % p, (A[2] * z * z * z) % p, z)

\* Every Jacobian point of the curve with the affine point it stands for:
\* all representatives of the affine points, and representatives of the point
\* at infinity (the one __add__ and __mul__ make and another).
JacobiPoints(curve) ==
    { [P |-> Representative(A, z, curve.p), affine |-> [x |-> A[1], y |-> A[2]]] :
        A \in AffinePoints(curve), z \in 1..(curve.p - 1) }
    \cup { [P |-> PointJacobi(0, 1, 0), affine |-> None],
           [P |-> PointJacobi(4, 5, 0), affine |-> None] }

\* P + Q, called once
CallPointAdd(JP, JQ) ==
    /\ calls = <<>>
    /\ calls' = << [op |-> "__add__", P |-> JP.P, Q |-> JQ.P,
                    affP |-> JP.affine, affQ |-> JQ.affine,
                    ret |-> point_add(JP.P, JQ.P, SECP256k1.curve)] >>
    /\ UNCHANGED <<H, heap>>

\* P.to_affine(), called once
CallToAffine(JP) ==
    /\ calls = <<>>
    /\ calls' = << [op |-> "to_affine", P |-> JP.P, affP |-> JP.affine,
                    ret |-> to_affine(JP.P, SECP256k1.curve)] >>
    /\ UNCHANGED <<H, heap>>

NextPoint ==
    \/ \E JP \in JacobiPoints(SECP256k1.curve), JQ \in JacobiPoints(SECP256k1.curve) :
          CallPointAdd(JP, JQ)
    \/ \E JP \in JacobiPoints(SECP256k1.curve) : CallToAffine(JP)
    \/ \E privkey \in 0..(SECP256k1.order - 1), message \in Messages,
          r \in 0..(SECP256k1.order + 1), s \in 0..(SECP256k1.order + 1) :
            CallVerify(privkey, message, r, s)

SpecPoint == Init /\ [][NextPoint]_vars

\* ---------------------------------------------------------------------
\* Calls of generate_k (rfc6979.py), HMAC and SHA-256 returning any byte
\* string: the integer of a digest is any integer of holen_bits bits.

HashInts == 0..(2 ^ holen_bits - 1)

\* The tables T can grow into while generate_k runs, each digest it reads
\* getting any integer of HashInts.
RECURSIVE FillHash(_, _, _, _)
RECURSIVE FillHashNext(_, _, _, _, _)
FillHashNext(order, secexp, data, T, t) ==
    IF t = Absent THEN {T}
    ELSE UNION { FillHash(order, secexp, data, Ext(T, t, v)) : v \in HashInts }

FillHash(order, secexp, data, T) ==
    FillHashNext(order, secexp, data, T, generate_k_missing(order, secexp, data, T))

\* Lines 41-57: the states [K, V] the loop passes through, one for each
\* candidate it drew, from the state st.
RECURSIVE rfc_states(_, _, _, _)
rfc_states(st, rejected, order, T) ==
    IF (1 <= rfc_candidate(st, order, T) /\ rfc_candidate(st, order, T) < order)
         \/ rejected + 1 > MaxRetry
    THEN << st >>
    ELSE << st >> \o rfc_states(rfc_update(st), rejected + 1, order, T)

\* The orders generate_k is called for: that of the curve, a smaller one of
\* the same bit length, and one of fewer bits than a digest (line 48 shifts).
RfcOrders == { SECP256k1.order, SECP256k1.order - 2, SECP256k1.order - 4 }

\* generate_k(order, secexp, hashlib.sha256, data), called once; states are
\* the [K, V] of its loop.
CallGenerateK(order, secexp, data) ==
    /\ calls = <<>>
    /\ \E T \in FillHash(order, secexp, data, H) :
         /\ H' = T /\ heap' = heap
         /\ calls' = << [op |-> "generate_k", order |-> order, secexp |-> secexp,
                         data |-> data,
                         states |-> rfc_states(rfc_setup(order, secexp, data, T),
                                               0, order, T)]
                        @@ generate_k(order, secexp, data, T) >>

NextRfc ==
    \E order \in RfcOrders, secexp \in 1..2, data \in Messages :
        CallGenerateK(order, secexp, data)

SpecRfc == Init /\ [][NextRfc]_vars

\* ---------------------------------------------------------------------
\* Concurrent calls of derive_nonce_jacobian, HBDECDSAKey.sign and
\* VerifyingKey.verify.  Each call is a thread of its own: calls[t] holds its
\* arguments, its position pc and its local variables, which are references
\* into heap.  A step is one statement of the call; the steps of the calls
\* interleave in any order.

MaxThreads == 2

\* The n-th object the call t makes.
Addr(t, n) == [owner |-> t, n |-> n]

\* jacobian_masking.py:108, 192   self.curve of CANTOR, read from the shared
\* memory at each use.
Curve(mem) == HyperellipticCurve(mem.f, mem.p)

\* result_addr of an addition made in place: the sum is stored in the first
\* operand.
result_addr_in_place(t, n, a1) == a1

\* Line 166: add returns MumfordDivisor(...), a new object; the lists it
\* strips in place (lines 90-91) are those _reduce and poly_divmod made for
\* this call.
result_addr(t, n, a1) == Addr(t, n)

\* Lines 137-166 for the doublings scalar_mul makes of BASE_DIVISOR under the
\* scalars that line 248 lets through, tabulated.
DOUBLINGS ==
    [D \in {BASE_DIVISOR, double(BASE_DIVISOR, CANTOR)} |-> compose(D, D, CANTOR)]

\* Lines 137-166 on the operands read from the shared memory: the tabulated
\* result where the table holds the operands, the computation otherwise.
compose_shared(D1, D2, curve) ==
    IF curve = CANTOR /\ D1 = D2 /\ D1 \in DOMAIN DOUBLINGS THEN DOUBLINGS[D1]
    ELSE compose(D1, D2, curve)

\* Line 166: the object stored, or the exception that composition raised.
new_divisor(mem, n, D, at) ==
    IF Raised(D) THEN D
    ELSE [mem |-> [mem EXCEPT !.objs = (at :> D) @@ @], ref |-> at, n |-> n + 1]

\* CantorAlgorithm.add(D1, D2) on references a1, a2, by the call t that has
\* made n objects: [mem, ref, n], ref the object returned, which lines
\* 132-135 make one of the operands themselves; or the exception.
add_ref(mem, t, n, a1, a2) ==
    IF is_identity(mem.objs[a1].u) THEN [mem |-> mem, ref |-> a2, n |-> n]
    ELSE IF is_identity(mem.objs[a2].u) THEN [mem |-> mem, ref |-> a1, n |-> n]
    ELSE new_divisor(mem, n,
                     compose_shared(mem.objs[a1], mem.objs[a2], Curve(mem)),
                     result_addr(t, n, a1))

\* The calls in the middle of their statements.
Running(t) == t \in 1..Len(calls) /\ calls[t].pc \in {"loop", "double"}

\* Whether a step of the call t is taken while another call is running.
Overlaps(t) == calls[t].overlapped \/ \E o \in 1..Len(calls) : o # t /\ Running(o)

\* A thread calls op: derive_nonce_jacobian(privkey, message, order),
\* HBDECDSAKey(privkey).sign(message) or the verification of (r, s) under the
\* public key of privkey.  The key object is the thread's own.
Spawn(op, privkey, message, r, s) ==
    /\ Len(calls) < MaxThreads
    /\ calls' = Append(calls, [op |-> op, privkey |-> privkey, message |-> message,
                               r |-> r, s |-> s, pc |-> "start", k |-> 0,
                               k0 |-> 0, res |-> BaseAddr, addend |-> BaseAddr, n |-> 0,
                               overlapped |-> FALSE, ret |-> Absent])
    /\ heap' = [heap EXCEPT !.keys = Append(@, privkey)]
    /\ UNCHANGED H

\* The scalar of line 248 for the call th, zero for verify, which multiplies
\* no divisor.
thread_scalar(th, key, T) ==
    IF th.op = "verify" THEN 0
    ELSE nonce_scalar(nonce_seed(key, th.message).seed_bytes, T)

\* Lines 226-248 and 172-177: the hash chain down to seed_int, then
\* res = MumfordDivisor([1], [0]), addend = D = BASE_DIVISOR, k = scalar.
Begin(t) ==
    /\ t \in 1..Len(calls)
    /\ calls[t].pc = "start"
    /\ \E T \in Fill(calls[t], H) :
         /\ H' = T
         /\ heap' = [heap EXCEPT !.objs = (Addr(t, 0) :> IDENTITY) @@ @]
         /\ calls' = [calls EXCEPT ![t] =
                        [@ EXCEPT !.pc = "loop", !.res = Addr(t, 0), !.n = 1,
                                  !.addend = BaseAddr,
                                  !.k = thread_scalar(calls[t], heap.keys[t], T),
                                  !.k0 = thread_scalar(calls[t], heap.keys[t], T),
                                  !.overlapped = Overlaps(t)]]

\* The thread th after add returned out.
after_add(th, out, over) ==
    IF Raised(out) THEN [th EXCEPT !.pc = "done", !.ret = out, !.overlapped = over]
    ELSE [th EXCEPT !.pc = "double", !.res = out.ref, !.n = out.n,
                    !.overlapped = over]

StepAdd(t, out) ==
    /\ calls' = [calls EXCEPT ![t] = after_add(@, out, Overlaps(t))]
    /\ heap' = IF Raised(out) THEN heap ELSE out.mem
    /\ UNCHANGED H

\* Lines 179-181: while k > 0: if k & 1: res = self.add(res, addend)
Add(t) ==
    /\ t \in 1..Len(calls)
    /\ calls[t].pc = "loop"
    /\ calls[t].k > 0
    /\ IF calls[t].k % 2 = 1
       THEN StepAdd(t, add_ref(heap, t, calls[t].n, calls[t].res, calls[t].addend))
       ELSE /\ calls' = [calls EXCEPT ![t] = [@ EXCEPT !.pc = "double",
                                                       !.overlapped = Overlaps(t)]]
            /\ UNCHANGED <<H, heap>>

\* The thread th after double returned out.
after_double(th, out, over) ==
    IF Raised(out) THEN [th EXCEPT !.pc = "done", !.ret = out, !.overlapped = over]
    ELSE [th EXCEPT !.pc = "loop", !.addend = out.ref, !.n = out.n,
                    !.k = @ \div 2, !.overlapped = over]

StepDouble(t, out) ==
    /\ calls' = [calls EXCEPT ![t] = after_double(@, out, Overlaps(t))]
    /\ heap' = IF Raised(out) THEN heap ELSE out.mem
    /\ UNCHANGED H

\* Lines 182-183: addend = self.double(addend); k >>= 1
Double(t) ==
    /\ t \in 1..Len(calls)
    /\ calls[t].pc = "double"
    /\ StepDouble(t, add_ref(heap, t, calls[t].n, calls[t].addend, calls[t].addend))

\* The digest tables after reading the digest of the coordinates of D_prime.
CoordsFill(D_prime, T) ==
    IF coords_missing(D_prime, T) = Absent THEN {T}
    ELSE { Ext(T, coords_missing(D_prime, T), v) : v \in DigestInts }

\* What the call th returns once scalar_mul has returned D_prime: the nonce
\* (lines 254-259), the signature made with it (keys.py:90), or the result
\* of the verification (keys.py:12-32).
thread_result(th, key, D_prime, T) ==
    CASE th.op = "verify" -> verify(public_point(key), th.r, th.s, th.message, T)
      [] th.op = "sign" ->
            sign_with_k(key, from_bytes(sha256(th.message), T) % SECP256k1.order,
                        nonce_divisor(nonce_seed(key, th.message), th.k0, D_prime,
                                      SECP256k1.order, T))
      [] OTHER -> nonce_divisor(nonce_seed(key, th.message), th.k0, D_prime,
                                SECP256k1.order, T)

\* Line 185 and what follows the return of scalar_mul in the caller.
Return(t) ==
    /\ t \in 1..Len(calls)
    /\ calls[t].pc = "loop"
    /\ ~(calls[t].k > 0)
    /\ \E T \in CoordsFill(IF calls[t].op = "verify" THEN OverflowError
                           ELSE heap.objs[calls[t].res], H) :
         /\ H' = T
         /\ calls' = [calls EXCEPT ![t] =
                        [@ EXCEPT !.pc = "done", !.overlapped = Overlaps(t),
                                  !.ret = thread_result(calls[t], heap.keys[t],
                                                        heap.objs[calls[t].res], T)]]
    /\ UNCHANGED heap

\* The signatures handed to verify.
Signatures == { <<1, 1>>, <<2, 1>> }

NextConc ==
    \/ \E message \in Messages :
          Spawn("derive_nonce_jacobian", Len(calls) + 1, message, 0, 0)
    \/ \E message \in Messages : Spawn("sign", Len(calls) + 1, message, 0, 0)
    \/ \E message \in Messages, sig \in Signatures :
          Spawn("verify", Len(calls) + 1, message, sig[1], sig[2])
    \/ \E t \in 1..MaxThreads : Begin(t)
    \/ \E t \in 1..MaxThreads : Add(t)
    \/ \E t \in 1..MaxThreads : Double(t)
    \/ \E t \in 1..MaxThreads : Return(t)

SpecConc == Init /\ [][NextConc]_vars

\* What the call th returns when it runs alone.
Alone(th, T) ==
    CASE th.op = "verify" ->
            verify(public_point(th.privkey), th.r, th.s, th.message, T)
      [] th.op = "sign" -> sign(th.privkey, th.message, T)
      [] OTHER -> derive_nonce_jacobian(th.privkey, th.message, SECP256k1.order, T)

\* ---------------------------------------------------------------------
\* Properties

IsCall(i, ops) == i \in 1..Len(calls) /\ calls[i].op \in ops

\* C1: every signature that signing returns (HBDECDSAKey.sign and
\* sign_deterministic, for every key, message and digest) is accepted by
\* verify under the matching public key.
C1_RoundTrip ==
    \A i \in 1..Len(calls) :
        (IsCall(i, {"test_ecc", "test_hybrid"}) /\ ~Raised(calls[i].sig))
            => calls[i].verified = [ret |-> TRUE]

SameArgs(c1, c2) ==
    /\ c1.op = c2.op
    /\ c1.privkey = c2.privkey
    /\ c1.message = c2.message
    /\ c1.op = "derive_nonce_jacobian" => c1.ecc_order = c2.ecc_order

Outcome(c) == IF Raised(c) THEN [exc |-> c.exc] ELSE [ret |-> c.ret]

C3_Closure ==
    \A i \in 1..Len(calls) :
        (IsCall(i, {"add"}) /\ Valid(calls[i].D1, CANTOR) /\ Valid(calls[i].D2, CANTOR))
            => Valid(calls[i].ret, CANTOR)

\* Distinct digests stand for distinct integers.
CollisionFree(T) == \A a \in DOMAIN T, b \in DOMAIN T : a # b => T[a] # T[b]

\* C4: with collision-free hashes, derive_nonce_jacobian returns distinct
\* nonces for distinct (private key, message) pairs.
C4_NonceUnique ==
    CollisionFree(H) =>
        \A i \in 1..Len(calls), j \in 1..Len(calls) :
            ( /\ IsCall(i, {"derive_nonce_jacobian"}) /\ ~Raised(calls[i])
              /\ IsCall(j, {"derive_nonce_jacobian"}) /\ ~Raised(calls[j])
              /\ calls[i].ecc_order = calls[j].ecc_order
              /\ <<calls[i].privkey, calls[i].message>>
                     # <<calls[j].privkey, calls[j].message>> )
                => calls[i].ret # calls[j].ret

\* The byte string b holds the bytes t: b is t, or a concatenation or a
\* prefix of byte strings of which one holds t.  A digest does not hold its
\* input.
RECURSIVE Holds(_, _)
Holds(b, t) ==
    \/ b = t
    \/ "cat" \in DOMAIN b /\ \E i \in 1..Len(b.cat) : Holds(b.cat[i], t)
    \/ "first32" \in DOMAIN b /\ Holds(b.first32, t)

C6_TotalInRange ==
    \A i \in 1..Len(calls) :
        (IsCall(i, {"derive_nonce_jacobian"}) /\ calls[i].ecc_order >= 2
            /\ calls[i].privkey \in 1..(calls[i].ecc_order - 1))
            => (~Raised(calls[i]) /\ calls[i].ret \in 1..(calls[i].ecc_order - 1))

\* C7: verify returns false, and raises nothing, for a signature with r or s
\* outside 1..n-1.
C7_BoundaryRejection ==
    \A i \in 1..Len(calls) :
        (IsCall(i, {"verify"})
            /\ ~(calls[i].r \in 1..(SECP256k1.order - 1)
                 /\ calls[i].s \in 1..(SECP256k1.order - 1)))
            => (~Raised(calls[i]) /\ calls[i].ret = FALSE)

\* verify called with r = 0 and s in range, and with r in range and s = n.
C7_OutOfRange ==
    \E i \in 1..Len(calls) :
        /\ IsCall(i, {"verify"}) /\ calls[i].ret = FALSE
        /\ calls[i].privkey # 0
        /\ calls[i].r = 0 /\ calls[i].s \in 1..(SECP256k1.order - 1)

\* The nonce k is degenerate for the key and digest: k*G is the point at
\* infinity, or r = x(k*G) mod n is 0, or s is 0, which for invertible k is
\* digest + d*r = 0 (mod n).
Degenerate(privkey, digest_val, k) ==
    LET n == SECP256k1.order
        affine == to_affine(point_mul(SECP256k1.generator, k, SECP256k1.curve),
                            SECP256k1.curve)
    IN  \/ affine = None
        \/ affine.x % n = 0
        \/ (digest_val + privkey * (affine.x % n)) % n = 0

SignatureInRange(sig) ==
    /\ sig[1] \in 1..(SECP256k1.order - 1)
    /\ sig[2] \in 1..(SECP256k1.order - 1)

\* C8: sign_digest raises ValueError when the nonce is degenerate, and every
\* signature sign_digest, sign_deterministic and sign return has r and s in
\* 1..n-1.
C8_DegenerateNonce ==
    \A i \in 1..Len(calls) :
        /\ IsCall(i, {"sign_digest"}) =>
             /\ Degenerate(calls[i].privkey, calls[i].digest_val, calls[i].k)
                    => Outcome(calls[i]) = ValueError
             /\ ~Raised(calls[i]) => SignatureInRange(calls[i].ret)
        /\ (IsCall(i, {"test_ecc", "test_hybrid"}) /\ ~Raised(calls[i].sig))
             => SignatureInRange(calls[i].sig.ret)

\* sign_digest raised for a nonce whose point is finite with r # 0: s = 0.
C8_ZeroS ==
    \E i \in 1..Len(calls) :
        /\ IsCall(i, {"sign_digest"}) /\ Outcome(calls[i]) = ValueError
        /\ calls[i].k \in 1..(SECP256k1.order - 1)
        /\ to_affine(point_mul(SECP256k1.generator, calls[i].k, SECP256k1.curve),
                     SECP256k1.curve).x % SECP256k1.order # 0

\* add(scalar_mul(a, D), scalar_mul(b, D)), or the exception of a scalar_mul
add_multiples(a, b, D) ==
    LET Da == scalar_mul(a, D, CANTOR)
        Db == scalar_mul(b, D, CANTOR)
    IN  IF Raised(Da) THEN Da ELSE IF Raised(Db) THEN Db ELSE add(Da, Db, CANTOR)

\* C9: for a valid reduced divisor D and small a, b,
\* scalar_mul(a+b, D) = add(scalar_mul(a, D), scalar_mul(b, D)).
C9_Homomorphism ==
    \A i \in 1..Len(calls) :
        (IsCall(i, {"scalar_mul"}) /\ Valid(calls[i].D, CANTOR)) =>
            \A a \in 0..MaxScalar, b \in 0..MaxScalar :
                a + b = calls[i].scalar
                    => calls[i].ret = add_multiples(a, b, calls[i].D)

C11_IdentityLaw ==
    \A i \in 1..Len(calls) :
        IsCall(i, {"add"}) =>
            /\ (Valid(calls[i].D1, CANTOR) /\ calls[i].D2 = IDENTITY)
                   => calls[i].ret = calls[i].D1
            /\ (calls[i].D1 = IDENTITY /\ Valid(calls[i].D2, CANTOR))
                   => calls[i].ret = calls[i].D2
            /\ (is_zero_poly(calls[i].D1.u) /\ Valid(calls[i].D2, CANTOR))
                   => calls[i].ret = calls[i].D2
            /\ (Valid(calls[i].D1, CANTOR) /\ is_zero_poly(calls[i].D2.u))
                   => calls[i].ret = (IF calls[i].D1 = IDENTITY THEN calls[i].D2
                                                               ELSE calls[i].D1)

\* add called with a valid divisor other than the identity and an operand
\* whose u is the zero polynomial
C11_ZeroOperand ==
    \E i \in 1..Len(calls) :
        /\ IsCall(i, {"add"})
        /\ Valid(calls[i].D1, CANTOR) /\ calls[i].D1 # IDENTITY
        /\ is_zero_poly(calls[i].D2.u)
        /\ calls[i].ret = calls[i].D1

\* C12: for canonical polynomials a and b, b not the zero polynomial,
\* poly_divmod(a, b) returns q and r with a = q*b + r, coefficient by
\* coefficient modulo p.
C12_DivmodReconstructs ==
    \A i \in 1..Len(calls) :
        (IsCall(i, {"poly_divmod"}) /\ ~is_zero_poly(calls[i].b))
            => /\ ~Raised(calls[i])
               /\ poly_add(poly_mul(calls[i].q, calls[i].b, _p), calls[i].r, _p)
                      = calls[i].a

\* A division of a polynomial by one no longer than it, with a quotient and
\* a remainder other than zero
C12_Divided ==
    \E i \in 1..Len(calls) :
        /\ IsCall(i, {"poly_divmod"}) /\ ~Raised(calls[i])
        /\ Len(calls[i].a) >= Len(calls[i].b) /\ Len(calls[i].b) > 1
        /\ ~is_zero_poly(calls[i].q) /\ ~is_zero_poly(calls[i].r)

\* C13: for canonical polynomials a and b, b not the zero polynomial, the
\* remainder of poly_divmod(a, b) has a smaller degree than b, the degree
\* being the length minus one.
C13_RemainderDegree ==
    \A i \in 1..Len(calls) :
        (IsCall(i, {"poly_divmod"}) /\ ~is_zero_poly(calls[i].b))
            => /\ ~Raised(calls[i])
               /\ Len(calls[i].r) - 1 < Len(calls[i].b) - 1

\* C19: when the loop of poly_xgcd has made all its XGCD_ITERATIONS passes
\* and the remainder is still not zero, the call raises; it does not return
\* a triple.
C19_CapIsLoud ==
    \A i \in 1..Len(calls) :
        (IsCall(i, {"poly_xgcd"}) /\ calls[i].passes = XGCD_ITERATIONS
            /\ ~is_zero_poly(calls[i].r))
            => Raised(calls[i])

\* C20: for canonical polynomials a and b, not both zero, poly_xgcd(a, b)
\* returns a monic g that divides a and b, with c1*a + c2*b = g modulo p.
C20_XgcdCorrect ==
    \A i \in 1..Len(calls) :
        (IsCall(i, {"poly_xgcd"})
            /\ ~(is_zero_poly(calls[i].a) /\ is_zero_poly(calls[i].b)))
            => /\ ~Raised(calls[i])
               /\ calls[i].gcd[Len(calls[i].gcd)] = 1
               /\ poly_divmod(calls[i].a, calls[i].gcd, _p).r = <<0>>
               /\ poly_divmod(calls[i].b, calls[i].gcd, _p).r = <<0>>
               /\ poly_add(poly_mul(calls[i].c1, calls[i].a, _p),
                           poly_mul(calls[i].c2, calls[i].b, _p), _p) = calls[i].gcd

\* C14: for a key whose public point is not at infinity, public_key_bytes is
\* the tag byte 4, then X, then Y, each of CoordBytes bytes big-endian, and
\* VerifyingKey.from_string of that string gives the affine point (X, Y)
\* back.
C14_KeyRoundTrip ==
    \A i \in 1..Len(calls) :
        (IsCall(i, {"public_key_bytes"}) /\ calls[i].affine # None)
            => /\ ~Raised(calls[i].ret)
               /\ Len(calls[i].ret.bytes) = 1 + 2 * CoordBytes
               /\ calls[i].ret.bytes = <<4>> \o digits_be(calls[i].affine.x, CoordBytes)
                                            \o digits_be(calls[i].affine.y, CoordBytes)
               /\ to_affine(calls[i].decoded, SECP256k1.curve) = calls[i].affine

\* A string that encodes a point of the curve: two coordinates of
\* CoordBytes bytes, with or without the tag byte in front, that satisfy the
\* equation of the curve.
WellFormed(string) ==
    \/ /\ Len(string.bytes) = 2 * CoordBytes
       /\ contains_point(SECP256k1.curve, from_string(string).x, from_string(string).y)
    \/ /\ Len(string.bytes) = 1 + 2 * CoordBytes
       /\ string.bytes[1] = 4
       /\ contains_point(SECP256k1.curve, from_string_tagged(string).x,
                         from_string_tagged(string).y)

\* C15: VerifyingKey.from_string raises for a string that is not the
\* encoding of a point of the curve (wrong length, or coordinates off the
\* curve); it returns no key for it.
C15_BadEncodingFails ==
    \A i \in 1..Len(calls) :
        (IsCall(i, {"from_string"}) /\ ~WellFormed(calls[i].string))
            => Raised(calls[i].ret)

\* C16: generate gives a secret d with 1 <= d <= n-1 and the public point
\* d*G, a point of the curve and never the point at infinity, whatever the
\* randomness source returns.
C16_GenerateRange ==
    \A i \in 1..Len(calls) :
        IsCall(i, {"generate"})
            => /\ calls[i].privkey \in 1..(SECP256k1.order - 1)
               /\ calls[i].pubkey = point_mul(SECP256k1.generator, calls[i].privkey,
                                              SECP256k1.curve)
               /\ to_affine(calls[i].pubkey, SECP256k1.curve) # None
               /\ contains_point(SECP256k1.curve,
                                 to_affine(calls[i].pubkey, SECP256k1.curve).x,
                                 to_affine(calls[i].pubkey, SECP256k1.curve).y)

\* generate with a random integer beyond n-2, which the reduction wraps
C16_Wrapped ==
    \E i \in 1..Len(calls) :
        /\ IsCall(i, {"generate"})
        /\ calls[i].urandom >= SECP256k1.order - 1
        /\ calls[i].urandom % (SECP256k1.order - 1) = 0
        /\ calls[i].privkey = 1

\* C18: the scalar derive_nonce_jacobian hands to CANTOR.scalar_mul has at
\* most BENCHMARK_SCALAR_BITS bits, and the loop of scalar_mul makes at most
\* that many passes for it.
C18_ExponentCap ==
    \A i \in 1..Len(calls) :
        (IsCall(i, {"derive_nonce_jacobian"}) /\ ~Raised(calls[i]))
            => /\ bit_length(calls[i].seed_int) <= BENCHMARK_SCALAR_BITS
               /\ scalar_mul_passes(calls[i].seed_int) <= BENCHMARK_SCALAR_BITS

\* C17: when sign, verify and derive_nonce_jacobian calls run concurrently on
\* their own keys and messages, in any interleaving of their steps, each call
\* returns exactly what it returns when run alone, and no step changes
\* BASE_DIVISOR's u and v, the curve polynomial f, the modulus p, or the key
\* a call was given.
C17_NoSharedMutableState ==
    /\ heap.objs[BaseAddr] = BASE_DIVISOR
    /\ heap.f = _f_poly
    /\ heap.p = _p
    /\ \A t \in 1..Len(calls) :
          /\ heap.keys[t] = calls[t].privkey
          /\ calls[t].pc = "done" => calls[t].ret = Alone(calls[t], H)

\* Two calls, a signature and a nonce derivation, have both returned after
\* steps taken while the other was in the middle of scalar_mul, and one of
\* them got BASE_DIVISOR itself back from scalar_mul.
C17_Interleaved ==
    /\ Len(calls) = 2
    /\ \A t \in 1..2 : /\ calls[t].pc = "done"
                       /\ calls[t].overlapped
                       /\ ~Raised(calls[t].ret)
    /\ { calls[1].op, calls[2].op } = { "sign", "derive_nonce_jacobian" }
    /\ \E t \in 1..2 : calls[t].res = BaseAddr

\* C21: for canonical polynomials a and b of degree at most D, the loop of
\* poly_xgcd ends on the zero remainder after at most D + 2 passes, far from
\* the XGCD_ITERATIONS passes of the cap.
C21_XgcdTerminates ==
    \A i \in 1..Len(calls) :
        IsCall(i, {"poly_xgcd"})
            => /\ is_zero_poly(calls[i].r)
               /\ calls[i].passes <= Max(Len(calls[i].a), Len(calls[i].b)) - 1 + 2
               /\ calls[i].passes < XGCD_ITERATIONS

\* C22: the call of _reduce that add makes for two valid reduced divisors
\* (deg(u) <= 4) returns after at most two passes of its loop, with u monic
\* of degree at most 2, and raises nothing.
C22_ReduceTerminates ==
    \A i \in 1..Len(calls) :
        (IsCall(i, {"_reduce"}) /\ calls[i].reached /\ Len(calls[i].u) - 1 <= 4)
            => /\ ~Raised(calls[i].ret)
               /\ calls[i].ret.iter <= 2
               /\ Len(calls[i].ret.u) - 1 <= 2
               /\ calls[i].ret.u[Len(calls[i].ret.u)] = 1

\* No trailing zero coefficient unless the list is [0], and every coefficient
\* in 0..p-1.
Canonical(a, p) ==
    /\ Len(a) >= 1
    /\ Len(a) > 1 => a[Len(a)] # 0
    /\ \A i \in 1..Len(a) : a[i] \in 0..(p - 1)

\* C23: for all coefficient lists with entries in 0..p-1, canonical or not,
\* every polynomial that poly_add, poly_sub, poly_mul, poly_divmod and
\* poly_xgcd return, and the u and v that a MumfordDivisor stores, are
\* canonical.
C23_CanonicalForm ==
    \A i \in 1..Len(calls) :
        IsCall(i, {"arith"})
            => \A k \in 1..Len(calls[i].returned) : Canonical(calls[i].returned[k], _p)

\* C24: P + Q is the other operand itself when an operand has Z = 0; for
\* finite P and Q with the same affine x and opposite y it is a point with
\* Z = 0; for finite P and Q standing for the same affine point it is exactly
\* P.double(); whatever the representatives of the two affine points.
C24_AdditionCases ==
    \A i \in 1..Len(calls) :
        IsCall(i, {"__add__"})
            => /\ calls[i].P.z = 0 => calls[i].ret = calls[i].Q
               /\ (calls[i].P.z # 0 /\ calls[i].Q.z = 0) => calls[i].ret = calls[i].P
               /\ (calls[i].P.z # 0 /\ calls[i].Q.z # 0
                     /\ calls[i].affP.x = calls[i].affQ.x
                     /\ calls[i].affP.y = (0 - calls[i].affQ.y) % SECP256k1.curve.p)
                    => calls[i].ret.z = 0
               /\ (calls[i].P.z # 0 /\ calls[i].Q.z # 0
                     /\ calls[i].affP = calls[i].affQ)
                    => calls[i].ret = point_double(calls[i].P, SECP256k1.curve)

\* An addition of two different representatives of one affine point, neither
\* with Z = 1, that gave a finite point
C24_SamePointTwoForms ==
    \E i \in 1..Len(calls) :
        /\ IsCall(i, {"__add__"})
        /\ calls[i].P.z > 1 /\ calls[i].Q.z > 1 /\ calls[i].P.z # calls[i].Q.z
        /\ calls[i].affP = calls[i].affQ
        /\ calls[i].ret.z # 0

\* The point u1*G + u2*Q that the call c of verify computes, T holding the
\* digest of its message.
SumOfCall(c, T) ==
    verify_sum(public_point(c.privkey), c.r, c.s,
               IF from_bytes(sha256(c.message), T) % SECP256k1.order = 0 THEN 1
               ELSE from_bytes(sha256(c.message), T) % SECP256k1.order,
               SECP256k1.order)

\* C25: to_affine returns None exactly when Z = 0, and the affine point
\* otherwise, never a pair made up for infinity; verify, for r and s in
\* range, returns False when u1*G + u2*Q is the point at infinity and
\* otherwise True exactly when the affine x of that point is r modulo n.
C25_InfinityExplicit ==
    \A i \in 1..Len(calls) :
        /\ IsCall(i, {"to_affine"})
            => /\ (calls[i].ret = None) <=> (calls[i].P.z = 0)
               /\ calls[i].P.z # 0 => calls[i].ret = calls[i].affP
        /\ (IsCall(i, {"verify"})
              /\ in_range(calls[i].r, calls[i].s, SECP256k1.order))
            => IF SumOfCall(calls[i], H).z = 0
               THEN calls[i].ret = FALSE
               ELSE calls[i].ret =
                       (to_affine(SumOfCall(calls[i], H), SECP256k1.curve).x
                            % SECP256k1.order = calls[i].r)

\* A verification, of a signature in range under a finite public key, whose
\* point u1*G + u2*Q is the point at infinity, and that returned False
C25_SumAtInfinity ==
    \E i \in 1..Len(calls) :
        /\ IsCall(i, {"verify"})
        /\ in_range(calls[i].r, calls[i].s, SECP256k1.order)
        /\ calls[i].privkey # 0
        /\ SumOfCall(calls[i], H).z = 0
        /\ calls[i].ret = FALSE

\* C26: whatever the digests, generate_k returns only a k with
\* 1 <= k <= order - 1; each candidate outside that range is followed by the
\* update K = HMAC_K(V || 0x00), V = HMAC_K(V) and a new candidate drawn from
\* that state; no candidate makes the call raise or return out of range.
C26_RejectionSampling ==
    \A i \in 1..Len(calls) :
        IsCall(i, {"generate_k"})
            => LET c == calls[i]
                   n == Len(c.states)
                   k(j) == rfc_candidate(c.states[j], c.order, H)
                   InRange(x) == 1 <= x /\ x <= c.order - 1
               IN  /\ \A j \in 1..(n - 1) :
                        /\ ~InRange(k(j))
                        /\ c.states[j + 1].K =
                              hmac_sha256(c.states[j].K,
                                  cat(hmac_sha256(c.states[j].K, c.states[j].V),
                                      [octets |-> "00"]))
                        /\ c.states[j + 1].V =
                              hmac_sha256(c.states[j + 1].K,
                                          hmac_sha256(c.states[j].K, c.states[j].V))
                   /\ IF InRange(k(n)) THEN ~Raised(c) /\ c.ret = k(n)
                      ELSE Raised(c) /\ c.exc = "NoReturn" /\ n = MaxRetry + 1

\* A call that returned the second candidate after rejecting a first one at
\* or above the order
C26_RejectedHigh ==
    \E i \in 1..Len(calls) :
        /\ IsCall(i, {"generate_k"}) /\ ~Raised(calls[i])
        /\ Len(calls[i].states) = 2
        /\ rfc_candidate(calls[i].states[1], calls[i].order, H) >= calls[i].order

\* C27: poly_divmod(num, den) raises whenever den is the zero polynomial, all
\* its coefficients zero, and then returns no quotient and remainder; raising
\* or not, it leaves the lists num and den of its caller as they were.
C27_DivisionByZero ==
    \A i \in 1..Len(calls) :
        (IsCall(i, {"arith"}) /\ calls[i].fn = "poly_divmod")
            => /\ (\A k \in 1..Len(calls[i].b) : calls[i].b[k] = 0)
                    => calls[i].returned = <<>>
               /\ calls[i].after = << calls[i].a, calls[i].b >>

C29_UniqueRepresentation ==
    \A i \in 1..Len(calls) :
        /\ (IsCall(i, {"add"}) /\ Valid(calls[i].D1, CANTOR)
              /\ Valid(calls[i].D2, CANTOR))
            => /\ ~Raised(calls[i].ret)
               /\ calls[i].ret.v = <<0>> \/ Len(calls[i].ret.v) < Len(calls[i].ret.u)
               /\ calls[i].D2 = Opposite(calls[i].D1, _p) => calls[i].ret = IDENTITY
        /\ (IsCall(i, {"scalar_mul"}) /\ Valid(calls[i].D, CANTOR))
            => /\ ~Raised(calls[i].ret)
               /\ calls[i].ret.v = <<0>> \/ Len(calls[i].ret.v) < Len(calls[i].ret.u)

\* C30: when verify accepts (r, s) for a message under a key, it accepts
\* (r, n - s) for the same message under the same key.
C30_Malleability ==
    \A i \in 1..Len(calls), j \in 1..Len(calls) :
        (IsCall(i, {"verify"}) /\ IsCall(j, {"verify"})
            /\ calls[j].privkey = calls[i].privkey
            /\ calls[j].message = calls[i].message
            /\ calls[j].r = calls[i].r
            /\ calls[j].s = SECP256k1.order - calls[i].s
            /\ calls[i].ret = TRUE)
            => calls[j].ret = TRUE

\* An accepted signature (r, s) followed by the verification of (r, n - s),
\* a different signature, accepted as well
C30_BothAccepted ==
    /\ Len(calls) = 2
    /\ IsCall(1, {"verify"}) /\ IsCall(2, {"verify"})
    /\ calls[1].ret = TRUE /\ calls[2].ret = TRUE
    /\ calls[2].s = SECP256k1.order - calls[1].s
    /\ calls[2].s # calls[1].s

====
